---- MODULE Spec2Model ----
(***************************************************************************)
(* Model of the document-triage page (src/src/app/page.tsx), the JSON      *)
(* webhook flow (src/src/ai/flows/parse-json-webhook.ts) and the action    *)
(* router flow (src/unnamed/part_000, route-action.ts).                    *)
(*                                                                         *)
(* A run is one invocation of handleProcessRequest.  The handler is an     *)
(* async function: it executes atomically between two awaits, so every     *)
(* action below is one segment of the handler from one await (or the       *)
(* click) to the next await or return.  pc[r] names the line at which run  *)
(* r is suspended ("await108") or the line of the return statement it      *)
(* left through ("ret119").  Texts are sequences of tokens so that         *)
(* String.trim and JSON.parse are computed, not assumed.  The timestamp    *)
(* of a log entry (new Date().toISOString()) is not modelled.              *)
(*                                                                         *)
(* Spec explores submissions that do not overlap, SpecFair adds that every *)
(* awaited call settles, SpecOverlap lets the user submit while a run is   *)
(* suspended, and SpecWebhook follows the first run of a session over a    *)
(* wide range of webhook texts and Router answers.                         *)
(***************************************************************************)
EXTENDS Integers, Sequences, FiniteSets, TLC

\* ---------------------------------------------------------------- bounds
\* Number of submissions (invocations of handleProcessRequest) explored.
MaxRuns == 2

Runs == 1..MaxRuns

\* ---------------------------------------------------------------- values
\* JavaScript null / undefined for object-valued and string-valued slots.
Null == [kind |-> "null"]
Undefined == [kind |-> "undefined"]
UndefinedStr == "<undefined>"

\* A string built at run time, as the sequence of its parts; a nullable
\* string (useState<string | null>) is Null or Str(parts).
Str(s) == [kind |-> "string", value |-> s]

\* Truthiness of a JavaScript string | undefined.
TruthyStr(s) == s # "" /\ s # UndefinedStr

\* Texts the user can have typed into the form: empty, whitespace only, a
\* plain sentence, a conforming webhook payload and a payload without
\* event_type.
EmptyText == <<>>
BlankText == <<" ", " ">>
PlainText == <<"hi", " ", "there">>
GoodWebhook ==
    <<"{", "\"event_type\"", ":", "\"x\"", ",", "\"timestamp\"", ":", "\"t\"", ",",
      "\"data\"", ":", "{", "}", "}">>
NoEventTypeWebhook ==
    <<"{", "\"timestamp\"", ":", "\"t\"", ",", "\"data\"", ":", "{", "}", "}">>

PdfFile == [kind |-> "file", name |-> "doc.pdf"]

\* The submissions explored, as what the form holds when the user clicks:
\* no text, whitespace only (with a stray file), a PDF without and with a
\* file, a conforming payload pasted as Email, and a non-conforming payload.
Submission(it, value, file) == [inputType |-> it, inputValue |-> value, inputFile |-> file]
Submissions ==
    {Submission("Email", EmptyText, Null), Submission("JSON", BlankText, PdfFile),
     Submission("PDF", PlainText, Null), Submission("PDF", EmptyText, PdfFile),
     Submission("Email", GoodWebhook, Null), Submission("JSON", NoEventTypeWebhook, Null)}

\* What the Classifier model call can answer.  "Memo" stands for any
\* non-empty format outside the three known ones, "" for an empty one; the
\* empty intent is explored together with one format.
Formats == {"Email", "JSON", "PDF", "Memo", ""}
KnownFormats == {"Email", "JSON", "PDF"}
Intents == {"Complaint", ""}
ClassifierOutputs ==
    {o \in [format : Formats, intent : Intents] : o.intent = "" => o.format = "JSON"}

\* Messages of the errors a rejected call can carry (error.message).
ErrorMessages == {"provider fault", ""}

\* What the Router's model call can answer: an action and details, or no
\* output at all.  "send_email" stands for any action without a route.
ModelActions == {"create_ticket", "flag_compliance_risk", "send_email"}
RouterModelOutputs ==
    {[kind |-> "object", actionTaken |-> a, details |-> <<"model details">>] : a \in ModelActions}
        \cup {Null}

EmailData == [kind |-> "EmailData"]
PdfData == [kind |-> "PdfData"]

\* ------------------------------------------------------- String.trim
IsSpace(tok) == tok = " "

RECURSIVE TrimStart(_)
TrimStart(s) == IF Len(s) > 0 /\ IsSpace(Head(s)) THEN TrimStart(Tail(s)) ELSE s

RECURSIVE TrimEnd(_)
TrimEnd(s) ==
    IF Len(s) > 0 /\ IsSpace(s[Len(s)]) THEN TrimEnd(SubSeq(s, 1, Len(s) - 1)) ELSE s

\* inputValue.trim()
trim(s) == TrimEnd(TrimStart(s))

\* ------------------------------------------------------- JSON.parse
\* String tokens and the string each denotes; number and literal tokens.
StringContent ==
    ("\"event_type\"" :> "event_type") @@ ("\"timestamp\"" :> "timestamp")
        @@ ("\"data\"" :> "data") @@ ("\"x\"" :> "x") @@ ("\"t\"" :> "t")
StringTokens == DOMAIN StringContent
NumberTokens == {"1"}
LiteralTokens == {"null", "true", "false"}

ParseFail == [ok |-> FALSE]
ParseOk(v, rest) == [ok |-> TRUE, v |-> v, rest |-> rest]

EmptyFields == [k \in {} |-> Null]
PutField(fields, key, v) ==
    [k \in DOMAIN fields \cup {key} |-> IF k = key THEN v ELSE fields[k]]

RECURSIVE ParseValue(_), ParseMembers(_, _), ParseElements(_, _)

\* One JSON value at the front of toks (leading whitespace skipped).
ParseValue(toks0) ==
    LET toks == TrimStart(toks0) IN
    IF Len(toks) = 0 THEN ParseFail
    ELSE LET h == Head(toks)
             t == Tail(toks) IN
         IF h \in StringTokens THEN ParseOk([t |-> "string", s |-> StringContent[h]], t)
         ELSE IF h \in NumberTokens THEN ParseOk([t |-> "number", s |-> h], t)
         ELSE IF h \in LiteralTokens
              THEN ParseOk([t |-> IF h = "null" THEN "null" ELSE "boolean", s |-> h], t)
         ELSE IF h = "{"
              THEN LET t1 == TrimStart(t) IN
                   IF Len(t1) > 0 /\ Head(t1) = "}"
                   THEN ParseOk([t |-> "object", fields |-> EmptyFields], Tail(t1))
                   ELSE ParseMembers(t1, EmptyFields)
         ELSE IF h = "["
              THEN LET t1 == TrimStart(t) IN
                   IF Len(t1) > 0 /\ Head(t1) = "]"
                   THEN ParseOk([t |-> "array", items |-> <<>>], Tail(t1))
                   ELSE ParseElements(t1, <<>>)
         ELSE ParseFail

\* key : value pairs up to the closing brace; a repeated key keeps the last.
ParseMembers(toks0, fields) ==
    LET toks == TrimStart(toks0) IN
    IF Len(toks) = 0 \/ Head(toks) \notin StringTokens THEN ParseFail
    ELSE LET key == StringContent[Head(toks)]
             t1 == TrimStart(Tail(toks)) IN
         IF Len(t1) = 0 \/ Head(t1) # ":" THEN ParseFail
         ELSE LET r == ParseValue(Tail(t1)) IN
              IF ~r.ok THEN ParseFail
              ELSE LET t2 == TrimStart(r.rest)
                       f2 == PutField(fields, key, r.v) IN
                   IF Len(t2) = 0 THEN ParseFail
                   ELSE IF Head(t2) = "," THEN ParseMembers(Tail(t2), f2)
                   ELSE IF Head(t2) = "}"
                        THEN ParseOk([t |-> "object", fields |-> f2], Tail(t2))
                   ELSE ParseFail

\* array elements up to the closing bracket.
ParseElements(toks0, items) ==
    LET r == ParseValue(toks0) IN
    IF ~r.ok THEN ParseFail
    ELSE LET t2 == TrimStart(r.rest)
             i2 == Append(items, r.v) IN
         IF Len(t2) = 0 THEN ParseFail
         ELSE IF Head(t2) = "," THEN ParseElements(Tail(t2), i2)
         ELSE IF Head(t2) = "]" THEN ParseOk([t |-> "array", items |-> i2], Tail(t2))
         ELSE ParseFail

\* JSON.parse(text): the value, or a thrown SyntaxError (ok = FALSE).
JSONparse(text) ==
    LET r == ParseValue(text) IN
    IF r.ok /\ Len(TrimStart(r.rest)) = 0 THEN [ok |-> TRUE, v |-> r.v] ELSE ParseFail

\* ------------------------------------------- JsonWebhookDataSchema.parse
\* The issue zod reports for one required key of the object, if any.
FieldIssue(v, key, expected) ==
    IF key \notin DOMAIN v.fields
    THEN <<[path |-> <<key>>, expected |-> expected, received |-> "undefined"]>>
    ELSE IF v.fields[key].t # expected
         THEN <<[path |-> <<key>>, expected |-> expected, received |-> v.fields[key].t]>>
    ELSE <<>>

\* Variant of the schema in which event_type is optional.
JsonWebhookDataSchemaOptionalEventType(v) ==
    IF v.t # "object"
    THEN <<[path |-> <<>>, expected |-> "object", received |-> v.t]>>
    ELSE FieldIssue(v, "timestamp", "string") \o FieldIssue(v, "data", "object")

\* The issues of JsonWebhookDataSchema.parse(v), in schema order; empty when
\* v conforms (unknown keys are stripped, not reported).
JsonWebhookDataSchema(v) ==
    IF v.t # "object"
    THEN <<[path |-> <<>>, expected |-> "object", received |-> v.t]>>
    ELSE FieldIssue(v, "event_type", "string") \o FieldIssue(v, "timestamp", "string")
             \o FieldIssue(v, "data", "object")

\* The deterministic body of parseJsonWebhookFlow.
parseJsonWebhookFlow(input) ==
    LET p == JSONparse(input.webhookData) IN
    IF ~p.ok
    THEN [isValid |-> FALSE, anomalies |-> <<[name |-> "SyntaxError"]>>]
    ELSE LET issues == JsonWebhookDataSchema(p.v) IN
         IF Len(issues) = 0
         THEN [isValid |-> TRUE, anomalies |-> <<>>]
         ELSE [isValid |-> FALSE, anomalies |-> <<[name |-> "ZodError", issues |-> issues]>>]

parseJsonWebhook(input) == parseJsonWebhookFlow(input)

\* ------------------------------------------------------- route-action.ts
\* JSON.stringify of an agent output, as tokens.  The fields of a model
\* produced record are one opaque token; a webhook verdict is spelled out.
JSONstringify(data) ==
    IF "isValid" \in DOMAIN data
    THEN <<"{", "\"isValid\"", ":", IF data.isValid THEN "true" ELSE "false", ",",
           "\"anomalies\"", ":", "[">>
             \o [i \in 1..Len(data.anomalies) |-> data.anomalies[i].name]
             \o <<"]", "}">>
    ELSE <<"{", data.kind, "}">>

simulateRestCall(endpoint, data) ==
    <<"Simulated ", endpoint, " call with data: ">> \o JSONstringify(data)

\* Variant of the mapping that routes an unlisted action to the ticket endpoint.
EndpointDefaultsToTicket(output) ==
    IF output = Null THEN ""
    ELSE IF output.actionTaken = "escalate_issue" THEN "/crm/escalate"
    ELSE IF output.actionTaken = "flag_compliance_risk" THEN "/risk_alert"
    ELSE "/crm/create_ticket"

\* Variant of the mapping that sends escalations to the ticket endpoint.
EndpointEscalateAsTicket(output) ==
    IF output # Null /\ output.actionTaken \in {"create_ticket", "escalate_issue"}
    THEN "/crm/create_ticket"
    ELSE IF output # Null /\ output.actionTaken = "flag_compliance_risk" THEN "/risk_alert"
    ELSE ""

\* The endpoint routeActionFlow maps the model's choice to ('' when none).
Endpoint(output) ==
    IF output # Null /\ output.actionTaken = "create_ticket" THEN "/crm/create_ticket"
    ELSE IF output # Null /\ output.actionTaken = "escalate_issue" THEN "/crm/escalate"
    ELSE IF output # Null /\ output.actionTaken = "flag_compliance_risk" THEN "/risk_alert"
    ELSE ""

\* Variant of the flow without the no-route branch: it always makes the
\* simulated call and reports the model's action, or 'unknown'.
routeActionFlowWithoutNoRoute(input, output) ==
    [result |-> [actionTaken |-> IF output # Null THEN output.actionTaken ELSE "unknown",
                 details |-> simulateRestCall(Endpoint(output), input.agentOutput)],
     calls |-> <<[endpoint |-> Endpoint(output), data |-> input.agentOutput]>>]

\* routeActionFlow after the prompt returned `output`: the decision it
\* returns and the simulated calls it made on the way.
routeActionFlow(input, output) ==
    IF Endpoint(output) = ""
    THEN [result |-> [actionTaken |-> "no_action_taken",
                      details |-> <<"No action was taken as no route matched.">>],
          calls |-> <<>>]
    ELSE [result |-> [actionTaken |-> IF output # Null THEN output.actionTaken ELSE "unknown",
                      details |-> simulateRestCall(Endpoint(output), input.agentOutput)],
          calls |-> <<[endpoint |-> Endpoint(output), data |-> input.agentOutput]>>]

\* ------------------------------------------------------------ page state
VARIABLES
    inputType, inputValue, inputFile,           \* the form (useState, lines 23-25)
    isLoading,
    classifierOutput, classifierError,
    specializedAgentOutput, specializedAgentError, specializedAgentName,
    actionRouterOutput, actionRouterError,
    memoryLog,
    toasts,                                     \* what toast() was called with
    pc,                                         \* per run: where the handler is
    frame,                                      \* per run: closure and locals
    calls,                                      \* server actions invoked so far
    restCalls                                   \* simulated REST calls made

formVars == <<inputType, inputValue, inputFile>>
outputVars ==
    <<classifierOutput, classifierError, specializedAgentOutput, specializedAgentError,
      actionRouterOutput, actionRouterError>>
vars ==
    <<inputType, inputValue, inputFile, isLoading, classifierOutput, classifierError,
      specializedAgentOutput, specializedAgentError, specializedAgentName,
      actionRouterOutput, actionRouterError, memoryLog, toasts, pc, frame, calls,
      restCalls>>

\* Positions of a run: not started, suspended at an await, or returned.
AwaitPcs == {"await84", "await108", "await132", "await137", "await142", "await162"}
ReturnPcs == {"ret89", "ret94", "ret98", "ret119", "ret153", "ret174"}

\* The closure of one invocation: the state it captured when it was created
\* (inputType, inputValue, inputFile, specializedAgentName) and its locals.
InitialFrame ==
    [inputType |-> UndefinedStr, inputValue |-> <<>>, inputFile |-> Null,
     specializedAgentName |-> UndefinedStr, currentDocumentContent |-> <<>>,
     classifierInput |-> Undefined, classifiedIntent |-> UndefinedStr,
     classifiedFormat |-> UndefinedStr, specializedInput |-> Undefined,
     agentOutputForRouter |-> Null, routerInput |-> Undefined]

Init ==
    /\ inputType = "Email"
    /\ inputValue = <<>>
    /\ inputFile = Null
    /\ isLoading = FALSE
    /\ classifierOutput = Null
    /\ classifierError = Null
    /\ specializedAgentOutput = Null
    /\ specializedAgentError = Null
    /\ specializedAgentName = "Specialized Agent"
    /\ actionRouterOutput = Null
    /\ actionRouterError = Null
    /\ memoryLog = <<>>
    /\ toasts = <<>>
    /\ pc = [r \in Runs |-> "idle"]
    /\ frame = [r \in Runs |-> InitialFrame]
    /\ calls = <<>>
    /\ restCalls = <<>>

\* ------------------------------------------------------------- helpers
\* The "Processing..." placeholder output.
Processing == Str(<<"Processing...">>)

\* The action label of an entry that was given none.
NoAction == <<>>

\* An entry as handed to addLogEntry; run is the invocation that appended it.
LogEntry(r, agent, input, output, action) ==
    [agent |-> agent, input |-> input, output |-> output, action |-> action, run |-> r]
\* Variant of addLogEntry that puts the new entry first: [entry, ...prev].
addLogEntryPrepends(prev, entry) == <<entry>> \o prev

\* Variant of addLogEntry that rebuilds the log from what the appending run
\* itself wrote: the entries of other runs are dropped.
addLogEntryOwnEntriesOnly(prev, entry) ==
    Append(SelectSeq(prev, LAMBDA e : e.run = entry.run), entry)

\* setMemoryLog(prev => [...prev, entry])
addLogEntry(prev, entry) == Append(prev, entry)

Toast(r, title, variant) == [title |-> title, variant |-> variant, run |-> r]

Call(r, fn, input) == [run |-> r, fn |-> fn, input |-> input]

\* error.message || fallback
MessageOr(message, fallback) == IF message # "" THEN <<message>> ELSE fallback

\* inputFile?.name
FileName(file) == IF file = Null THEN UndefinedStr ELSE file.name

\* await fileToDataUri(inputFile)
fileToDataUri(file) == <<"data:application/pdf;base64,", file.name>>

\* Truthiness of an object | null | undefined.
Truthy(v) == v # Null /\ v # Undefined
\* Variant of resetOutputs without line 50: the extraction error survives.
resetOutputsKeepsExtractionError ==
    /\ classifierOutput' = Null
    /\ classifierError' = Null
    /\ specializedAgentOutput' = Null
    /\ UNCHANGED specializedAgentError
    /\ actionRouterOutput' = Null
    /\ actionRouterError' = Null

\* Lines 46-54; the log is deliberately not cleared (line 53).
resetOutputs ==
    /\ classifierOutput' = Null
    /\ classifierError' = Null
    /\ specializedAgentOutput' = Null
    /\ specializedAgentError' = Null
    /\ actionRouterOutput' = Null
    /\ actionRouterError' = Null

\* The three input checks of lines 82-99.
NeedsPdfRead(it, file) == it = "PDF" /\ file # Null
MissingPdfFile(it, file) == it = "PDF" /\ file = Null

\* Variant of the blank-text check without trim(): !inputValue.
MissingInputUntrimmed(it, value) == it # "PDF" /\ Len(value) = 0

\* inputType !== 'PDF' && !inputValue.trim()
MissingInput(it, value) == it # "PDF" /\ Len(trim(value)) = 0

\* Variant of the Router guard that does not test agentOutputForRouter.
ShouldRouteWithoutOutput(agentOutput, intent, format) ==
    TruthyStr(intent) /\ TruthyStr(format)

\* Variant of the guard of step 3 that routes only a valid webhook verdict.
ShouldRouteOnlyValid(agentOutput, intent, format) ==
    /\ Truthy(agentOutput)
    /\ TruthyStr(intent)
    /\ TruthyStr(format)
    /\ "isValid" \in DOMAIN agentOutput => agentOutput.isValid

\* if (agentOutputForRouter && classifiedIntent && classifiedFormat)
ShouldRoute(agentOutput, intent, format) ==
    Truthy(agentOutput) /\ TruthyStr(intent) /\ TruthyStr(format)

\* No earlier invocation is still suspended at an await.
NoRunInFlight == \A q \in Runs : pc[q] \notin AwaitPcs

\* r is the next invocation: every earlier one has started.
NextRun(r) == pc[r] = "idle" /\ \A q \in Runs : q < r => pc[q] # "idle"

\* ------------------------------------------------- handleProcessRequest
\* Variant of step 3 that leaves the handler without line 173 when the
\* Router is skipped.
Step3SkipKeepsLoading(r, fr, log, tst) ==
    IF ShouldRoute(fr.agentOutputForRouter, fr.classifiedIntent, fr.classifiedFormat)
    THEN LET routerInput ==
                 [agentOutput |-> fr.agentOutputForRouter, intent |-> fr.classifiedIntent,
                  format |-> fr.classifiedFormat] IN
         /\ memoryLog' =
                addLogEntry(log, LogEntry(r, "Action Router", routerInput, Processing, NoAction))
         /\ toasts' = tst
         /\ calls' = Append(calls, Call(r, "routeAction", routerInput))
         /\ frame' = [frame EXCEPT ![r] = [fr EXCEPT !.routerInput = routerInput]]
         /\ pc' = [pc EXCEPT ![r] = "await162"]
         /\ UNCHANGED isLoading
    ELSE /\ memoryLog' = log
         /\ toasts' = tst
         /\ UNCHANGED calls
         /\ frame' = [frame EXCEPT ![r] = fr]
         /\ pc' = [pc EXCEPT ![r] = "ret174"]
         /\ UNCHANGED isLoading

\* Step 3 (lines 157-173) up to the await of routeAction, or to the end of
\* the handler when the Router is skipped.
Step3(r, fr, log, tst) ==
    IF ShouldRoute(fr.agentOutputForRouter, fr.classifiedIntent, fr.classifiedFormat)
    THEN LET routerInput ==
                 [agentOutput |-> fr.agentOutputForRouter, intent |-> fr.classifiedIntent,
                  format |-> fr.classifiedFormat] IN
         /\ memoryLog' =
                addLogEntry(log, LogEntry(r, "Action Router", routerInput, Processing, NoAction))
         /\ toasts' = tst
         /\ calls' = Append(calls, Call(r, "routeAction", routerInput))
         /\ frame' = [frame EXCEPT ![r] = [fr EXCEPT !.routerInput = routerInput]]
         /\ pc' = [pc EXCEPT ![r] = "await162"]
         /\ UNCHANGED isLoading
    ELSE /\ memoryLog' = log
         /\ toasts' = tst
         /\ UNCHANGED calls
         /\ frame' = [frame EXCEPT ![r] = fr]
         /\ pc' = [pc EXCEPT ![r] = "ret174"]
         /\ isLoading' = FALSE
\* Variant of the branch selection in which a JSON document is handed to
\* the Email agent (the first two branches test the same format).
VariantJsonAsEmail(fr) ==
    IF fr.classifiedFormat \in {"Email", "JSON"}
    THEN [name |-> "Email Agent", fn |-> "extractEmailData", await |-> "await132",
          input |-> [emailContent |-> fr.inputValue],
          logInput |-> [emailContent |-> fr.inputValue]]
    ELSE [name |-> "PDF Agent", fn |-> "extractPdfData", await |-> "await142",
          input |-> [pdfDataUri |-> fr.currentDocumentContent],
          logInput |-> [pdfFileName |-> FileName(fr.inputFile)]]

\* The branch of lines 128-143 a known format selects.
Variant(fr) ==
    IF fr.classifiedFormat = "Email"
    THEN [name |-> "Email Agent", fn |-> "extractEmailData", await |-> "await132",
          input |-> [emailContent |-> fr.inputValue],
          logInput |-> [emailContent |-> fr.inputValue]]
    ELSE IF fr.classifiedFormat = "JSON"
    THEN [name |-> "JSON Agent", fn |-> "parseJsonWebhook", await |-> "await137",
          input |-> [webhookData |-> fr.inputValue],
          logInput |-> [webhookData |-> fr.inputValue]]
    ELSE [name |-> "PDF Agent", fn |-> "extractPdfData", await |-> "await142",
          input |-> [pdfDataUri |-> fr.currentDocumentContent],
          logInput |-> [pdfFileName |-> FileName(fr.inputFile)]]

\* Step 2 (lines 122-147) up to the await of the selected variant; when no
\* variant is selected it runs on into step 3.
Step2(r, fr, log, tst) ==
    IF ~TruthyStr(fr.classifiedFormat)
    THEN /\ UNCHANGED <<specializedAgentName, specializedAgentOutput>>
         /\ Step3(r, fr, log, tst)
    ELSE IF fr.classifiedFormat \in KnownFormats
    THEN LET v == Variant(fr) IN
         /\ specializedAgentName' = v.name
         /\ UNCHANGED specializedAgentOutput
         /\ memoryLog' = addLogEntry(log, LogEntry(r, v.name, v.logInput, Processing, NoAction))
         /\ toasts' = tst
         /\ calls' = Append(calls, Call(r, v.fn, v.input))
         /\ frame' = [frame EXCEPT ![r] = [fr EXCEPT !.specializedInput = v.input]]
         /\ pc' = [pc EXCEPT ![r] = v.await]
         /\ UNCHANGED isLoading
    ELSE \* no branch matches: specializedOutput and specializedInput stay undefined
         /\ UNCHANGED specializedAgentName
         /\ specializedAgentOutput' = Null
         /\ Step3(r, [fr EXCEPT !.agentOutputForRouter = Undefined],
                  addLogEntry(log, LogEntry(r, fr.specializedAgentName, Undefined, Undefined,
                                            NoAction)),
                  Append(tst, Toast(r, <<fr.specializedAgentName, " Success">>, "default")))

\* Step 1 (lines 102-108) up to the await of classifyDocument.
Step1(r, fr, log, tst) ==
    LET classifierInput ==
            [documentContent |->
                 IF fr.inputType = "PDF" THEN <<"PDF File: ", FileName(fr.inputFile)>>
                 ELSE fr.inputValue,
             documentFormat |-> fr.inputType] IN
    /\ memoryLog' =
           addLogEntry(log, LogEntry(r, "Classifier", classifierInput, Processing, NoAction))
    /\ toasts' = tst
    /\ calls' = Append(calls, Call(r, "classifyDocument", classifierInput))
    /\ frame' = [frame EXCEPT ![r] = [fr EXCEPT !.classifierInput = classifierInput]]
    /\ pc' = [pc EXCEPT ![r] = "await108"]

\* Lines 77-108: the handler from the click to its first await or return,
\* run in the closure that captured (it, value, file) and the current
\* specializedAgentName.
handleProcessRequest(r, it, value, file) ==
    LET fr == [InitialFrame EXCEPT !.inputType = it, !.inputValue = value,
                                   !.inputFile = file,
                                   !.specializedAgentName = specializedAgentName,
                                   !.currentDocumentContent = value] IN
    /\ resetOutputs
    /\ UNCHANGED <<specializedAgentName, restCalls>>
    /\ IF NeedsPdfRead(it, file)
       THEN /\ isLoading' = TRUE
            /\ pc' = [pc EXCEPT ![r] = "await84"]
            /\ frame' = [frame EXCEPT ![r] = fr]
            /\ UNCHANGED <<memoryLog, toasts, calls>>
       ELSE IF MissingPdfFile(it, file)
       THEN /\ toasts' = Append(toasts, Toast(r, <<"Missing PDF File">>, "destructive"))
            /\ isLoading' = FALSE
            /\ pc' = [pc EXCEPT ![r] = "ret94"]
            /\ frame' = [frame EXCEPT ![r] = fr]
            /\ UNCHANGED <<memoryLog, calls>>
       ELSE IF MissingInput(it, value)
       THEN /\ toasts' = Append(toasts, Toast(r, <<"Missing Input">>, "destructive"))
            /\ isLoading' = FALSE
            /\ pc' = [pc EXCEPT ![r] = "ret98"]
            /\ frame' = [frame EXCEPT ![r] = fr]
            /\ UNCHANGED <<memoryLog, calls>>
       ELSE /\ isLoading' = TRUE
            /\ Step1(r, fr, memoryLog, toasts)

\* The user fills in the form and submits while no run is in progress.
Submit(r) ==
    /\ NextRun(r)
    /\ NoRunInFlight
    /\ \E s \in Submissions :
           /\ inputType' = s.inputType
           /\ inputValue' = s.inputValue
           /\ inputFile' = s.inputFile
           /\ handleProcessRequest(r, s.inputType, s.inputValue, s.inputFile)

\* Line 84 resolves: the data URI replaces the document content, step 1 starts.
fileToDataUriReturns(r) ==
    /\ pc[r] = "await84"
    /\ UNCHANGED <<formVars, isLoading, outputVars, specializedAgentName, restCalls>>
    /\ Step1(r, [frame[r] EXCEPT !.currentDocumentContent = fileToDataUri(frame[r].inputFile)],
             memoryLog, toasts)

\* Line 84 rejects (lines 85-90).
fileToDataUriThrows(r) ==
    /\ pc[r] = "await84"
    /\ toasts' = Append(toasts, Toast(r, <<"Error reading PDF">>, "destructive"))
    /\ specializedAgentError' = Str(<<"Failed to read PDF file.">>)
    /\ isLoading' = FALSE
    /\ pc' = [pc EXCEPT ![r] = "ret89"]
    /\ UNCHANGED <<formVars, classifierOutput, classifierError, specializedAgentOutput,
                   specializedAgentName, actionRouterOutput, actionRouterError, memoryLog,
                   frame, calls, restCalls>>

\* Line 108 resolves with output (lines 109-113), then step 2 starts.
classifyDocumentReturns(r, output) ==
    /\ pc[r] = "await108"
    /\ classifierOutput' = output
    /\ UNCHANGED <<formVars, classifierError, specializedAgentError, actionRouterOutput,
                   actionRouterError, restCalls>>
    /\ Step2(r,
             [frame[r] EXCEPT !.classifiedIntent = output.intent,
                              !.classifiedFormat = output.format],
             addLogEntry(memoryLog,
                         LogEntry(r, "Classifier", frame[r].classifierInput, output, NoAction)),
             Append(toasts, Toast(r, <<"Classifier Success">>, "default")))
\* Variant of the Classifier catch block without line 116 (no log entry).
classifyDocumentThrowsUnlogged(r, message) ==
    /\ pc[r] = "await108"
    /\ classifierError' = Str(MessageOr(message, <<"Error in Classifier Agent">>))
    /\ toasts' = Append(toasts, Toast(r, <<"Classifier Error">>, "destructive"))
    /\ isLoading' = FALSE
    /\ pc' = [pc EXCEPT ![r] = "ret119"]
    /\ UNCHANGED <<formVars, classifierOutput, specializedAgentOutput, specializedAgentError,
                   specializedAgentName, actionRouterOutput, actionRouterError, memoryLog,
                   frame, calls, restCalls>>

\* Line 108 rejects with an error carrying message (lines 114-120).
classifyDocumentThrows(r, message) ==
    /\ pc[r] = "await108"
    /\ classifierError' = Str(MessageOr(message, <<"Error in Classifier Agent">>))
    /\ memoryLog' =
           addLogEntry(memoryLog,
                       LogEntry(r, "Classifier", Undefined, [error |-> message], NoAction))
    /\ toasts' = Append(toasts, Toast(r, <<"Classifier Error">>, "destructive"))
    /\ isLoading' = FALSE
    /\ pc' = [pc EXCEPT ![r] = "ret119"]
    /\ UNCHANGED <<formVars, classifierOutput, specializedAgentOutput, specializedAgentError,
                   specializedAgentName, actionRouterOutput, actionRouterError, frame, calls,
                   restCalls>>

\* Variant of lines 144-147 that shows the result without logging it.
SpecializedReturnsUnlogged(r, specializedOutput) ==
    /\ specializedAgentOutput' = IF Truthy(specializedOutput) THEN specializedOutput ELSE Null
    /\ UNCHANGED <<formVars, classifierOutput, classifierError, specializedAgentError,
                   specializedAgentName, actionRouterOutput, actionRouterError, restCalls>>
    /\ Step3(r,
             [frame[r] EXCEPT !.agentOutputForRouter = specializedOutput],
             memoryLog,
             Append(toasts, Toast(r, <<frame[r].specializedAgentName, " Success">>, "default")))

\* The awaited variant resolves with specializedOutput (lines 144-147), then
\* step 3 starts.  The agent name is the one the closure captured.
SpecializedReturns(r, specializedOutput) ==
    /\ specializedAgentOutput' = IF Truthy(specializedOutput) THEN specializedOutput ELSE Null
    /\ UNCHANGED <<formVars, classifierOutput, classifierError, specializedAgentError,
                   specializedAgentName, actionRouterOutput, actionRouterError, restCalls>>
    /\ Step3(r,
             [frame[r] EXCEPT !.agentOutputForRouter = specializedOutput],
             addLogEntry(memoryLog,
                         LogEntry(r, frame[r].specializedAgentName, frame[r].specializedInput,
                                  specializedOutput, NoAction)),
             Append(toasts, Toast(r, <<frame[r].specializedAgentName, " Success">>, "default")))

extractEmailDataReturns(r) ==
    /\ pc[r] = "await132"
    /\ SpecializedReturns(r, EmailData)

parseJsonWebhookReturns(r) ==
    /\ pc[r] = "await137"
    /\ SpecializedReturns(r, parseJsonWebhook(frame[r].specializedInput))

extractPdfDataReturns(r) ==
    /\ pc[r] = "await142"
    /\ SpecializedReturns(r, PdfData)
\* Variant of the extraction catch block that also clears the Classifier card.
specializedAgentThrowsClearsClassifier(r, message) ==
    /\ pc[r] \in {"await132", "await137", "await142"}
    /\ specializedAgentError' =
           Str(MessageOr(message, <<"Error in ", frame[r].specializedAgentName>>))
    /\ classifierOutput' = Null
    /\ memoryLog' =
           addLogEntry(memoryLog,
                       LogEntry(r, frame[r].specializedAgentName, Undefined,
                                [error |-> message], NoAction))
    /\ toasts' =
           Append(toasts, Toast(r, <<frame[r].specializedAgentName, " Error">>, "destructive"))
    /\ isLoading' = FALSE
    /\ pc' = [pc EXCEPT ![r] = "ret153"]
    /\ UNCHANGED <<formVars, classifierError, specializedAgentOutput,
                   specializedAgentName, actionRouterOutput, actionRouterError, frame, calls,
                   restCalls>>

\* The awaited variant rejects with an error carrying message (lines 148-154).
specializedAgentThrows(r, message) ==
    /\ pc[r] \in {"await132", "await137", "await142"}
    /\ specializedAgentError' =
           Str(MessageOr(message, <<"Error in ", frame[r].specializedAgentName>>))
    /\ memoryLog' =
           addLogEntry(memoryLog,
                       LogEntry(r, frame[r].specializedAgentName, Undefined,
                                [error |-> message], NoAction))
    /\ toasts' =
           Append(toasts, Toast(r, <<frame[r].specializedAgentName, " Error">>, "destructive"))
    /\ isLoading' = FALSE
    /\ pc' = [pc EXCEPT ![r] = "ret153"]
    /\ UNCHANGED <<formVars, classifierOutput, classifierError, specializedAgentOutput,
                   specializedAgentName, actionRouterOutput, actionRouterError, frame, calls,
                   restCalls>>

\* Line 162 resolves: the flow ran with the model answering modelOutput
\* (lines 163-165, then line 173).
routeActionReturns(r, modelOutput) ==
    /\ pc[r] = "await162"
    /\ LET flow == routeActionFlow(frame[r].routerInput, modelOutput) IN
       /\ actionRouterOutput' = flow.result
       /\ restCalls' = restCalls \o flow.calls
       /\ memoryLog' =
              addLogEntry(memoryLog,
                          LogEntry(r, "Action Router", frame[r].routerInput, flow.result,
                                   <<"Action: ", flow.result.actionTaken>>))
    /\ toasts' = Append(toasts, Toast(r, <<"Action Router Success">>, "default"))
    /\ isLoading' = FALSE
    /\ pc' = [pc EXCEPT ![r] = "ret174"]
    /\ UNCHANGED <<formVars, classifierOutput, classifierError, specializedAgentOutput,
                   specializedAgentError, specializedAgentName, actionRouterError, frame,
                   calls>>
\* Variant of the Router catch block that records the error with the
\* extraction stage's setter.
routeActionThrowsWrongSetter(r, message) ==
    /\ pc[r] = "await162"
    /\ specializedAgentError' = Str(MessageOr(message, <<"Error in Action Router">>))
    /\ memoryLog' =
           addLogEntry(memoryLog,
                       LogEntry(r, "Action Router", Undefined, [error |-> message], NoAction))
    /\ toasts' = Append(toasts, Toast(r, <<"Action Router Error">>, "destructive"))
    /\ isLoading' = FALSE
    /\ pc' = [pc EXCEPT ![r] = "ret174"]
    /\ UNCHANGED <<formVars, classifierOutput, classifierError, specializedAgentOutput,
                   actionRouterError, specializedAgentName, actionRouterOutput, frame,
                   calls, restCalls>>

\* Variant of the Router catch block without line 168 (no log entry).
routeActionThrowsUnlogged(r, message) ==
    /\ pc[r] = "await162"
    /\ actionRouterError' = Str(MessageOr(message, <<"Error in Action Router">>))
    /\ toasts' = Append(toasts, Toast(r, <<"Action Router Error">>, "destructive"))
    /\ isLoading' = FALSE
    /\ pc' = [pc EXCEPT ![r] = "ret174"]
    /\ UNCHANGED <<formVars, classifierOutput, classifierError, specializedAgentOutput,
                   specializedAgentError, specializedAgentName, actionRouterOutput,
                   memoryLog, frame, calls, restCalls>>

\* Line 162 rejects with an error carrying message (lines 166-170, then 173).
routeActionThrows(r, message) ==
    /\ pc[r] = "await162"
    /\ actionRouterError' = Str(MessageOr(message, <<"Error in Action Router">>))
    /\ memoryLog' =
           addLogEntry(memoryLog,
                       LogEntry(r, "Action Router", Undefined, [error |-> message], NoAction))
    /\ toasts' = Append(toasts, Toast(r, <<"Action Router Error">>, "destructive"))
    /\ isLoading' = FALSE
    /\ pc' = [pc EXCEPT ![r] = "ret174"]
    /\ UNCHANGED <<formVars, classifierOutput, classifierError, specializedAgentOutput,
                   specializedAgentError, specializedAgentName, actionRouterOutput, frame,
                   calls, restCalls>>

Next ==
    \E r \in Runs :
        \/ Submit(r)
        \/ fileToDataUriReturns(r)
        \/ fileToDataUriThrows(r)
        \/ \E output \in ClassifierOutputs : classifyDocumentReturns(r, output)
        \/ \E message \in ErrorMessages : classifyDocumentThrows(r, message)
        \/ extractEmailDataReturns(r)
        \/ parseJsonWebhookReturns(r)
        \/ extractPdfDataReturns(r)
        \/ \E message \in ErrorMessages : specializedAgentThrows(r, message)
        \/ \E modelOutput \in RouterModelOutputs : routeActionReturns(r, modelOutput)
        \/ \E message \in ErrorMessages : routeActionThrows(r, message)

Spec == Init /\ [][Next]_vars

\* ------------------------------------------------ calls that settle
\* The call run r awaits fails or returns.
Settle(r) ==
    \/ fileToDataUriThrows(r)
    \/ \E message \in ErrorMessages : classifyDocumentThrows(r, message)
    \/ \E message \in ErrorMessages : specializedAgentThrows(r, message)
    \/ \E message \in ErrorMessages : routeActionThrows(r, message)
    \/ fileToDataUriReturns(r)
    \/ \E output \in ClassifierOutputs : classifyDocumentReturns(r, output)
    \/ extractEmailDataReturns(r)
    \/ parseJsonWebhookReturns(r)
    \/ extractPdfDataReturns(r)
    \/ \E modelOutput \in RouterModelOutputs : routeActionReturns(r, modelOutput)

\* Every awaited promise (the file read, each model call) settles.
SpecFair == Spec /\ \A r \in Runs : WF_vars(Settle(r))

\* --------------------------------------------- overlapping submissions
\* The user submits again whether or not an earlier run is still suspended:
\* nothing in the handler refuses a click while isLoading is set.
SubmitAnytime(r) ==
    /\ NextRun(r)
    /\ \E s \in Submissions :
           /\ inputType' = s.inputType
           /\ inputValue' = s.inputValue
           /\ inputFile' = s.inputFile
           /\ handleProcessRequest(r, s.inputType, s.inputValue, s.inputFile)

NextOverlap ==
    \E r \in Runs :
        \/ SubmitAnytime(r)
        \/ fileToDataUriReturns(r)
        \/ fileToDataUriThrows(r)
        \/ \E output \in ClassifierOutputs : classifyDocumentReturns(r, output)
        \/ \E message \in ErrorMessages : classifyDocumentThrows(r, message)
        \/ extractEmailDataReturns(r)
        \/ parseJsonWebhookReturns(r)
        \/ extractPdfDataReturns(r)
        \/ \E message \in ErrorMessages : specializedAgentThrows(r, message)
        \/ \E modelOutput \in RouterModelOutputs : routeActionReturns(r, modelOutput)
        \/ \E message \in ErrorMessages : routeActionThrows(r, message)

SpecOverlap == Init /\ [][NextOverlap]_vars

\* ------------------------------------- the first run, over many texts
\* Length up to which every text over TextAlphabet is enumerated.
MaxTokens == 2

\* Tokens of the exhaustively enumerated texts; "hi" is not a JSON token.
TextAlphabet == {"{", "}", "[", "]", ":", ",", " ", "\"data\"", "\"x\"", "1", "null", "hi"}
RawTexts == UNION {[1..n -> TextAlphabet] : n \in 0..MaxTokens}

\* Object payloads: each key of JsonWebhookDataSchema is absent or carries a
\* value of one kind ("record" is an object with a member).
WebhookKeys == <<"\"event_type\"", "\"timestamp\"", "\"data\"">>
ValueKinds == {"absent", "string", "number", "object", "record", "array", "null"}
ValueTokens(kind) ==
    CASE kind = "string" -> <<"\"x\"">>
      [] kind = "number" -> <<"1">>
      [] kind = "object" -> <<"{", "}">>
      [] kind = "record" -> <<"{", "\"x\"", ":", "1", "}">>
      [] kind = "array" -> <<"[", "]">>
      [] kind = "null" -> <<"null">>

PayloadShapes == [DOMAIN WebhookKeys -> ValueKinds]

RECURSIVE MemberTokens(_, _, _)
MemberTokens(shape, i, first) ==
    IF i > Len(WebhookKeys) THEN <<>>
    ELSE IF shape[i] = "absent" THEN MemberTokens(shape, i + 1, first)
    ELSE (IF first THEN <<>> ELSE <<",">>) \o <<WebhookKeys[i], ":">>
             \o ValueTokens(shape[i]) \o MemberTokens(shape, i + 1, FALSE)

PayloadTokens(shape) == <<"{">> \o MemberTokens(shape, 1, TRUE) \o <<"}">>
PayloadTexts == {PayloadTokens(shape) : shape \in PayloadShapes}

WebhookTexts == RawTexts \cup PayloadTexts

\* How a text reaches parseJsonWebhook from the form: typed as JSON when it
\* is not blank, or left in the text box of a PDF submission (line 135 sends
\* inputValue whatever the input type).
WebhookSubmissions ==
    {Submission("JSON", t, Null) : t \in {u \in WebhookTexts : Len(trim(u)) > 0}}
        \cup {Submission("PDF", t, PdfFile) : t \in {u \in WebhookTexts : Len(trim(u)) = 0}}

\* The Router's model answers with every routed action, an unrouted one, or
\* no output.
RoutedActions == {"create_ticket", "escalate_issue", "flag_compliance_risk"}
AnyRouterModelOutputs ==
    {[kind |-> "object", actionTaken |-> a, details |-> <<"model details">>] :
        a \in RoutedActions \cup {"send_email"}} \cup {Null}

\* The first submission of a session carries a webhook text.
SubmitWebhook(r) ==
    /\ NextRun(r)
    /\ \A q \in Runs : pc[q] = "idle"
    /\ \E s \in WebhookSubmissions :
           /\ inputType' = s.inputType
           /\ inputValue' = s.inputValue
           /\ inputFile' = s.inputFile
           /\ handleProcessRequest(r, s.inputType, s.inputValue, s.inputFile)

\* The Classifier answers JSON with an intent.
classifiedAsJson(r) == classifyDocumentReturns(r, [format |-> "JSON", intent |-> "Complaint"])

NextWebhook ==
    \E r \in Runs :
        \/ SubmitWebhook(r)
        \/ fileToDataUriReturns(r)
        \/ classifiedAsJson(r)
        \/ parseJsonWebhookReturns(r)
        \/ \E message \in ErrorMessages : specializedAgentThrows(r, message)
        \/ \E modelOutput \in AnyRouterModelOutputs : routeActionReturns(r, modelOutput)

SpecWebhook == Init /\ [][NextWebhook]_vars

\* ------------------------------------------------ views of the history
Started(r) == pc[r] # "idle"

\* r is the submission whose results the page currently shows.
IsCurrent(r) == Started(r) /\ \A q \in Runs : q > r => ~Started(q)

\* The entries run r appended, and the server actions it invoked, in order.
EntriesOf(r) == SelectSeq(memoryLog, LAMBDA e : e.run = r)
CallsOf(r) == SelectSeq(calls, LAMBDA c : c.run = r)

IsErrorEntry(e) == "error" \in DOMAIN e.output
IsPlaceholder(e) == e.output = Processing

ExtractionAgents == {"Specialized Agent", "Email Agent", "JSON Agent", "PDF Agent"}
VariantFns == {"extractEmailData", "parseJsonWebhook", "extractPdfData"}

\* Run r appended an error entry under one of the agent names.
HasErrorEntry(r, agents) ==
    \E i \in 1..Len(memoryLog) :
        memoryLog[i].run = r /\ memoryLog[i].agent \in agents /\ IsErrorEntry(memoryLog[i])

\* No failure of run r is shown: no error field set, no destructive toast.
NoErrorSurfaced(r) ==
    /\ classifierError = Null
    /\ specializedAgentError = Null
    /\ actionRouterError = Null
    /\ \A i \in 1..Len(toasts) : toasts[i].run = r => toasts[i].variant # "destructive"

\* ------------------------------------------------------------- claims

\* C1: in every state reached by non-overlapping submissions, a Routing
\* Decision is shown only together with a Classification Result and an
\* Extraction Result, and with no Classifier or extraction error recorded.
C1_RoutingOnlyAfterResults ==
    actionRouterOutput # Null =>
        /\ classifierOutput # Null
        /\ specializedAgentOutput # Null
        /\ classifierError = Null
        /\ specializedAgentError = Null

\* C1 witness: the second submission produced a Routing Decision after the
\* first one had ended with an extraction error.
C1_Witness == pc[1] = "ret153" /\ pc[2] = "ret174" /\ actionRouterOutput # Null

\* The current run ended after the Classifier answered with a format
\* outside {Email, JSON, PDF}.
UnmatchedFormatRun(r) ==
    IsCurrent(r) /\ pc[r] = "ret174" /\ frame[r].classifiedFormat \notin KnownFormats

\* C2 as claimed: after a Classifier answer with a format outside {Email,
\* JSON, PDF} the run ends with no Extraction Result, no Routing Decision
\* and no error surfaced, having appended exactly one log entry, for the
\* Classifier, carrying no error.
C2_ExactlyOneEntry ==
    \A r \in Runs :
        UnmatchedFormatRun(r) =>
            /\ specializedAgentOutput = Null
            /\ actionRouterOutput = Null
            /\ NoErrorSurfaced(r)
            /\ Len(EntriesOf(r)) = 1
            /\ EntriesOf(r)[1].agent = "Classifier"
            /\ ~IsErrorEntry(EntriesOf(r)[1])

\* C2 as amended: after a Classifier answer with a format outside {Email,
\* JSON, PDF} the run ends with no Extraction Result, no Routing Decision,
\* no error surfaced and no extraction or Router call made; it has appended
\* the Classifier placeholder and the Classifier result, and, when the
\* format is a non-empty string, one more entry without input, output or
\* error under the agent name the handler captured; none carries an error.
C2_ClassifierEntriesOnly ==
    \A r \in Runs :
        UnmatchedFormatRun(r) =>
            LET E == EntriesOf(r) IN
            /\ specializedAgentOutput = Null
            /\ actionRouterOutput = Null
            /\ NoErrorSurfaced(r)
            /\ Len(CallsOf(r)) = 1
            /\ CallsOf(r)[1].fn = "classifyDocument"
            /\ Len(E) = IF TruthyStr(frame[r].classifiedFormat) THEN 3 ELSE 2
            /\ E[1].agent = "Classifier" /\ IsPlaceholder(E[1])
            /\ E[2].agent = "Classifier" /\ E[2].output = classifierOutput
            /\ Len(E) = 3 =>
                   /\ E[3].agent = frame[r].specializedAgentName
                   /\ E[3].input = Undefined
                   /\ E[3].output = Undefined
            /\ \A i \in 1..Len(E) : ~IsErrorEntry(E[i])

\* C2 witness: the second submission was classified as "Memo" and ended.
C2_Witness == UnmatchedFormatRun(2) /\ frame[2].classifiedFormat = "Memo"

\* C3: when the Classifier call fails the run ends in Error (line 119) with
\* the classifier error recorded, no Extraction Result, no Routing Decision,
\* the loading flag cleared, no call besides the Classifier's, and exactly
\* the Classifier placeholder and the Classifier error entry appended.
C3_ClassifierFailureHalts ==
    \A r \in Runs :
        IsCurrent(r) /\ pc[r] = "ret119" =>
            LET E == EntriesOf(r) IN
            /\ classifierError # Null
            /\ classifierOutput = Null
            /\ specializedAgentOutput = Null
            /\ actionRouterOutput = Null
            /\ ~isLoading
            /\ Len(CallsOf(r)) = 1
            /\ CallsOf(r)[1].fn = "classifyDocument"
            /\ Len(E) = 2
            /\ E[1].agent = "Classifier" /\ IsPlaceholder(E[1])
            /\ E[2].agent = "Classifier" /\ IsErrorEntry(E[2])

\* C3 witness: the Classifier call of the second submission failed.
C3_Witness == pc[2] = "ret119" /\ classifierError # Null

\* C4: when the selected extraction variant fails the run ends in Error
\* (line 153) with the extraction error recorded, the Router never called,
\* no Routing Decision, and the Classification Result still the one the
\* Classifier returned in this run.
C4_ExtractionFailureHalts ==
    \A r \in Runs :
        IsCurrent(r) /\ pc[r] = "ret153" =>
            LET E == EntriesOf(r) IN
            /\ specializedAgentError # Null
            /\ specializedAgentOutput = Null
            /\ actionRouterOutput = Null
            /\ actionRouterError = Null
            /\ ~isLoading
            /\ \A i \in 1..Len(CallsOf(r)) : CallsOf(r)[i].fn # "routeAction"
            /\ classifierOutput # Null
            /\ E[2].agent = "Classifier"
            /\ classifierOutput = E[2].output

\* C4 witness: the JSON variant of the second submission was rejected.
C4_Witness ==
    /\ pc[2] = "ret153"
    /\ specializedAgentError # Null
    /\ classifierOutput # Null
    /\ classifierOutput.format = "JSON"

\* The last entry run r appended is a Router error entry.
RouterFailed(r) ==
    LET E == EntriesOf(r) IN
    Len(E) > 0 /\ E[Len(E)].agent = "Action Router" /\ IsErrorEntry(E[Len(E)])

\* C5: when the Router call fails the error is recorded against the Router
\* only: Classification Result and Extraction Result are still the ones
\* this run produced, the classifier and extraction error fields are empty,
\* there is no Routing Decision, and the run completed (line 174, loading
\* flag cleared).
C5_RouterFailureIsLocal ==
    \A r \in Runs :
        IsCurrent(r) /\ RouterFailed(r) =>
            LET E == EntriesOf(r) IN
            /\ actionRouterError # Null
            /\ actionRouterOutput = Null
            /\ classifierError = Null
            /\ specializedAgentError = Null
            /\ classifierOutput # Null
            /\ classifierOutput = E[2].output
            /\ specializedAgentOutput # Null
            /\ specializedAgentOutput = E[4].output
            /\ pc[r] = "ret174"
            /\ ~isLoading

\* C5 witness: the Router call of the second submission failed.
C5_Witness == IsCurrent(2) /\ RouterFailed(2) /\ actionRouterError # Null

\* Run r was submitted with blank text for a non-PDF kind, or as a PDF
\* with no file selected.
BlankSubmission(r) ==
    \/ /\ frame[r].inputType # "PDF"
       /\ \A i \in 1..Len(frame[r].inputValue) : frame[r].inputValue[i] = " "
    \/ /\ frame[r].inputType = "PDF"
       /\ frame[r].inputFile = Null

\* C6: a submission with blank text (non-PDF) or without a file (PDF) halts
\* before the Classifier stage: it returns at line 94 or 98, calls no stage
\* and appends no log entry, so after a first such run the log is empty.
C6_BlankInputHalts ==
    \A r \in Runs :
        Started(r) /\ BlankSubmission(r) =>
            /\ pc[r] \in {"ret94", "ret98"}
            /\ Len(CallsOf(r)) = 0
            /\ Len(EntriesOf(r)) = 0
            /\ IsCurrent(r) => ~isLoading
            /\ (r = 1 /\ IsCurrent(r)) => memoryLog = <<>>

\* C6 witness: a whitespace-only Email submission was halted after an
\* earlier run had written to the log.
C6_Witness ==
    /\ pc[2] = "ret98"
    /\ frame[2].inputValue = BlankText
    /\ Len(memoryLog) > 0

\* The variant that matches a format.
VariantFor(format) ==
    CASE format = "Email" -> "extractEmailData"
      [] format = "JSON" -> "parseJsonWebhook"
      [] format = "PDF" -> "extractPdfData"
      [] OTHER -> "none"

\* C7: within one run the calls are ordered Classifier, one extraction
\* variant, Router.  The variant is called only after the Classifier's
\* result was logged and is the one matching the returned format; the Router
\* is called only after the variant's result was logged, with agentOutput
\* equal to that result and intent and format equal to the Classifier's.
C7_StagesInOrder ==
    \A r \in Runs :
        LET C == CallsOf(r)
            E == EntriesOf(r) IN
        /\ Len(C) <= 3
        /\ Len(C) >= 1 => C[1].fn = "classifyDocument"
        /\ Len(C) >= 2 =>
               /\ C[2].fn \in VariantFns
               /\ Len(E) >= 3
               /\ E[2].agent = "Classifier"
               /\ ~IsErrorEntry(E[2]) /\ ~IsPlaceholder(E[2])
               /\ C[2].fn = VariantFor(E[2].output.format)
        /\ Len(C) >= 3 =>
               /\ C[3].fn = "routeAction"
               /\ Len(E) >= 5
               /\ ~IsErrorEntry(E[4]) /\ ~IsPlaceholder(E[4])
               /\ C[3].input.agentOutput = E[4].output
               /\ C[3].input.intent = E[2].output.intent
               /\ C[3].input.format = E[2].output.format

\* C7 witness: the second submission, classified as JSON, reached the Router.
C7_Witness ==
    /\ Len(CallsOf(2)) = 3
    /\ CallsOf(2)[2].fn = "parseJsonWebhook"
    /\ CallsOf(2)[3].fn = "routeAction"

\* C8 as claimed: the entry that follows a placeholder in the log is a
\* resolved entry of the same run under the same stage name, and a
\* placeholder is left unresolved only while its run is suspended.
C8_ResolvedUnderSameName ==
    \A i \in 1..Len(memoryLog) :
        IsPlaceholder(memoryLog[i]) =>
            IF i < Len(memoryLog)
            THEN /\ memoryLog[i + 1].run = memoryLog[i].run
                 /\ ~IsPlaceholder(memoryLog[i + 1])
                 /\ memoryLog[i + 1].agent = memoryLog[i].agent
            ELSE pc[memoryLog[i].run] \in AwaitPcs

\* C9: the log is append-only: every step leaves the previous log as a
\* prefix of the new one.
C9_AppendOnly ==
    [][/\ Len(memoryLog') >= Len(memoryLog)
       /\ SubSeq(memoryLog', 1, Len(memoryLog)) = memoryLog]_vars

\* C9 witness: the log holds entries of the first run followed by entries
\* of the second.
C9_Witness ==
    /\ Len(EntriesOf(1)) > 0
    /\ Len(EntriesOf(2)) > 0
    /\ memoryLog = EntriesOf(1) \o EntriesOf(2)

\* C10 as claimed: whenever an error field of the current run is non-empty,
\* the log holds an error entry for that stage appended by the same run.
C10_ErrorFieldImpliesEntry ==
    \A r \in Runs :
        IsCurrent(r) =>
            /\ classifierError # Null => HasErrorEntry(r, {"Classifier"})
            /\ specializedAgentError # Null => HasErrorEntry(r, ExtractionAgents)
            /\ actionRouterError # Null => HasErrorEntry(r, {"Action Router"})

\* The error field shows the raw message of the last entry of run r, or the
\* fallback text when that message is empty.
ShowsLastError(r, field, fallback) ==
    LET E == EntriesOf(r) IN
    /\ Len(E) > 0
    /\ IsErrorEntry(E[Len(E)])
    /\ field = Str(IF E[Len(E)].output.error # "" THEN <<E[Len(E)].output.error>>
                   ELSE fallback)

\* C10 as amended: whenever a stage call of the current run failed (its
\* error field is non-empty and the run did not stop at the PDF file read),
\* the same run appended an error entry for that stage, as its last entry,
\* carrying the raw error message.  When the PDF file cannot be read the
\* extraction error field is set and the run appends no entry at all.
C10_StageFailureIsLogged ==
    \A r \in Runs :
        IsCurrent(r) =>
            /\ classifierError # Null =>
                   /\ HasErrorEntry(r, {"Classifier"})
                   /\ ShowsLastError(r, classifierError, <<"Error in Classifier Agent">>)
            /\ (specializedAgentError # Null /\ pc[r] # "ret89") =>
                   /\ HasErrorEntry(r, ExtractionAgents)
                   /\ ShowsLastError(r, specializedAgentError,
                                     <<"Error in ", frame[r].specializedAgentName>>)
            /\ actionRouterError # Null =>
                   /\ HasErrorEntry(r, {"Action Router"})
                   /\ ShowsLastError(r, actionRouterError, <<"Error in Action Router">>)
            /\ pc[r] = "ret89" =>
                   /\ specializedAgentError = Str(<<"Failed to read PDF file.">>)
                   /\ Len(EntriesOf(r)) = 0

\* C10 witness: the Router call of the second submission failed with a
\* non-empty message after the first submission's PDF could not be read.
C10_Witness ==
    /\ pc[1] = "ret89"
    /\ IsCurrent(2)
    /\ actionRouterError = Str(<<"provider fault">>)

\* ---------------------------------------------------- parseJsonWebhook
\* Run r called parseJsonWebhook and the call returned: its text and verdict.
ParsedByFlow(r) ==
    /\ Len(CallsOf(r)) >= 2
    /\ CallsOf(r)[2].fn = "parseJsonWebhook"
    /\ Len(EntriesOf(r)) >= 4
    /\ ~IsErrorEntry(EntriesOf(r)[4])
WebhookTextOf(r) == CallsOf(r)[2].input.webhookData
VerdictOf(r) == EntriesOf(r)[4].output

\* The text spells an object with a string event_type, a string timestamp
\* and an object-valued data.
ConformingShape(shape) ==
    shape[1] = "string" /\ shape[2] = "string" /\ shape[3] \in {"object", "record"}
Conforming(text) ==
    \E shape \in PayloadShapes : ConformingShape(shape) /\ text = PayloadTokens(shape)

\* C11: for every text handed to parseJsonWebhook the verdict is one of
\* three: not valid with exactly one parse-error message when the text is
\* not JSON; not valid with a non-empty anomaly list when it is JSON but
\* not a conforming payload; valid with no anomalies when it is a
\* conforming payload.  In all cases isValid holds exactly when the anomaly
\* list is empty.
C11_WebhookVerdict ==
    \A r \in Runs :
        ParsedByFlow(r) =>
            LET text == WebhookTextOf(r)
                out == VerdictOf(r)
                p == JSONparse(text) IN
            /\ out.isValid = (Len(out.anomalies) = 0)
            /\ text \in PayloadTexts => p.ok
            /\ ~p.ok => out = [isValid |-> FALSE, anomalies |-> <<[name |-> "SyntaxError"]>>]
            /\ (p.ok /\ ~Conforming(text)) => (~out.isValid /\ Len(out.anomalies) > 0)
            /\ Conforming(text) => out = [isValid |-> TRUE, anomalies |-> <<>>]

\* A payload that omits only event_type was judged.
C11_Witness ==
    \E r \in Runs :
        /\ ParsedByFlow(r)
        /\ WebhookTextOf(r) = PayloadTokens(<<"absent", "string", "record">>)
        /\ ~VerdictOf(r).isValid
        /\ Len(VerdictOf(r).anomalies) = 1

\* ---------------------------------------------------------- routeAction
\* The decision returned when no route matches.
NoActionDecision ==
    [actionTaken |-> "no_action_taken",
     details |-> <<"No action was taken as no route matched.">>]

\* The endpoint the data model assigns to each routed action.
RouteOf ==
    ("create_ticket" :> "/crm/create_ticket") @@ ("escalate_issue" :> "/crm/escalate")
        @@ ("flag_compliance_risk" :> "/risk_alert")

\* The agent output run r handed to routeAction.
RouterPayloadOf(r) == CallsOf(r)[Len(CallsOf(r))].input.agentOutput

C12_Step ==
    \A r \in Runs : \A m \in AnyRouterModelOutputs \ {Null} :
        (routeActionReturns(r, m) /\ m.actionTaken \notin RoutedActions) =>
            /\ actionRouterOutput' = NoActionDecision
            /\ restCalls' = restCalls

\* C12: when the model chooses an action that is none of create_ticket,
\* escalate_issue, flag_compliance_risk, routeAction returns exactly the
\* no_action_taken decision with the fixed details text and makes no
\* simulated call.
C12_NoRouteNoCall == [][C12_Step]_vars

\* A run ended on the no_action_taken decision without any simulated call.
C12_Witness ==
    \E r \in Runs :
        /\ pc[r] = "ret174"
        /\ actionRouterOutput = NoActionDecision
        /\ restCalls = <<>>

C13_Step ==
    \A r \in Runs : \A m \in AnyRouterModelOutputs \ {Null} :
        (routeActionReturns(r, m) /\ m.actionTaken \in RoutedActions) =>
            LET endpoint == RouteOf[m.actionTaken]
                payload == RouterPayloadOf(r) IN
            /\ restCalls' = Append(restCalls, [endpoint |-> endpoint, data |-> payload])
            /\ actionRouterOutput'.actionTaken = m.actionTaken
            /\ actionRouterOutput'.details =
                   <<"Simulated ", endpoint, " call with data: ">> \o JSONstringify(payload)

\* C13: when the model chooses create_ticket, escalate_issue or
\* flag_compliance_risk, routeAction makes exactly one simulated call, to
\* /crm/create_ticket, /crm/escalate or /risk_alert respectively, with the
\* agent output as payload; the returned actionTaken is the model's choice
\* and details describes that call and names the endpoint.
C13_RoutedActionCallsEndpoint == [][C13_Step]_vars

\* An escalation was routed: one call to /crm/escalate with the verdict.
C13_Witness ==
    \E r \in Runs :
        /\ pc[r] = "ret174"
        /\ actionRouterOutput.actionTaken = "escalate_issue"
        /\ restCalls = <<[endpoint |-> "/crm/escalate", data |-> RouterPayloadOf(r)]>>
        /\ actionRouterOutput.details[2] = "/crm/escalate"

C19_Step ==
    \A r \in Runs : \A m \in AnyRouterModelOutputs :
        routeActionReturns(r, m) =>
            /\ actionRouterOutput'.actionTaken \in RoutedActions \cup {"no_action_taken"}
            /\ m = Null => (actionRouterOutput' = NoActionDecision /\ restCalls' = restCalls)

\* C19: every decision routeAction returns has actionTaken among
\* create_ticket, escalate_issue, flag_compliance_risk and no_action_taken;
\* "unknown" is never returned, and when the model gives no output the
\* decision is no_action_taken.
C19_ActionTakenInSet == [][C19_Step]_vars

\* The log shows a Router result labelled no_action_taken.
C19_Witness ==
    \E i \in 1..Len(memoryLog) :
        /\ memoryLog[i].agent = "Action Router"
        /\ memoryLog[i].action = <<"Action: ", "no_action_taken">>
        /\ memoryLog[i].output = NoActionDecision

\* ------------------------------------------------------ the whole run
\* C14: when every awaited call settles, every started run ends, with the
\* loading flag cleared at its end, whichever way it goes: validation
\* failure, PDF read failure, Classifier error, extraction error, unmatched
\* format, Router error or success.
C14_RunEndsLoadingCleared ==
    \A r \in Runs : Started(r) ~> (pc[r] \in ReturnPcs /\ ~isLoading)

\* One run ended on a failed PDF read, the next on a skipped Router, and
\* the page is not loading.
C14_Witness ==
    /\ pc[1] = "ret89"
    /\ pc[2] = "ret174"
    /\ Len(CallsOf(2)) = 1
    /\ ~isLoading

\* Run r has ended; its Classifier call returned a known format and an
\* intent, and no call of the run failed.
UnfailedRun(r) ==
    /\ pc[r] \in ReturnPcs
    /\ Len(EntriesOf(r)) >= 2
    /\ ~IsErrorEntry(EntriesOf(r)[2])
    /\ EntriesOf(r)[2].output.format \in KnownFormats
    /\ EntriesOf(r)[2].output.intent \in Intents \ {""}
    /\ \A i \in 1..Len(EntriesOf(r)) : ~IsErrorEntry(EntriesOf(r)[i])

\* C15: a run whose Classifier returned a format among Email, JSON, PDF and
\* an intent, and whose extraction and Router calls did not fail, ends at
\* the end of the handler with the three results shown, the three error
\* fields empty, and exactly six entries appended: Classifier placeholder,
\* Classifier result, extraction placeholder, extraction result, Router
\* placeholder, Router result, in this order.
C15_SuccessfulRun ==
    \A r \in Runs :
        UnfailedRun(r) =>
            LET E == EntriesOf(r) IN
            /\ pc[r] = "ret174"
            /\ Len(E) = 6
            /\ E[1].agent = "Classifier" /\ IsPlaceholder(E[1])
            /\ E[2].agent = "Classifier" /\ ~IsPlaceholder(E[2])
            /\ E[3].agent \in ExtractionAgents /\ IsPlaceholder(E[3])
            /\ E[4].agent \in ExtractionAgents /\ ~IsPlaceholder(E[4])
            /\ E[4].output # Undefined
            /\ E[5].agent = "Action Router" /\ IsPlaceholder(E[5])
            /\ E[6].agent = "Action Router" /\ ~IsPlaceholder(E[6])
            /\ IsCurrent(r) =>
                   /\ classifierOutput = E[2].output
                   /\ specializedAgentOutput = E[4].output
                   /\ actionRouterOutput = E[6].output
                   /\ classifierError = Null
                   /\ specializedAgentError = Null
                   /\ actionRouterError = Null

\* A run succeeded right after a run that failed in the extraction stage.
C15_Witness ==
    /\ pc[1] = "ret153"
    /\ UnfailedRun(2)
    /\ actionRouterOutput # Null

\* C18: when the Classifier answered JSON (with an intent), the content of
\* the text never makes the extraction stage fail: whenever the variant's
\* call returned, also for text that is not JSON or violates the schema, the
\* verdict (isValid false for such text) is what the page shows as the
\* extraction result, no extraction error is recorded, and the Router was
\* called with that verdict; the run is at the extraction catch only when
\* the call itself was rejected.
C18_BadJsonStillRouted ==
    \A r \in Runs :
        (Started(r) /\ frame[r].classifiedFormat = "JSON"
             /\ TruthyStr(frame[r].classifiedIntent)) =>
            /\ ParsedByFlow(r) =>
                   /\ "isValid" \in DOMAIN VerdictOf(r)
                   /\ ~Conforming(WebhookTextOf(r)) => ~VerdictOf(r).isValid
                   /\ pc[r] \in {"await162", "ret174"}
                   /\ Len(CallsOf(r)) = 3
                   /\ CallsOf(r)[3].fn = "routeAction"
                   /\ CallsOf(r)[3].input.agentOutput = VerdictOf(r)
                   /\ IsCurrent(r) =>
                          (specializedAgentOutput = VerdictOf(r) /\ specializedAgentError = Null)
            /\ pc[r] = "ret153" =>
                   /\ Len(EntriesOf(r)) = 4
                   /\ IsErrorEntry(EntriesOf(r)[4])
                   /\ EntriesOf(r)[4].output.error \in ErrorMessages

\* Text that is not JSON was judged not valid and handed to the Router.
C18_Witness ==
    \E r \in Runs :
        /\ ParsedByFlow(r)
        /\ WebhookTextOf(r) = <<"{", "hi">>
        /\ ~VerdictOf(r).isValid
        /\ pc[r] = "await162"
        /\ specializedAgentOutput = VerdictOf(r)

\* ------------------------------------------------- overlapping runs
\* The agent that logs the placeholder of a server call.
StageAgent ==
    ("classifyDocument" :> "Classifier") @@ ("extractEmailData" :> "Email Agent")
        @@ ("parseJsonWebhook" :> "JSON Agent") @@ ("extractPdfData" :> "PDF Agent")
        @@ ("routeAction" :> "Action Router")

\* Run r is suspended at a call whose placeholder it has logged.
AwaitsLoggedCall(r) == pc[r] \in AwaitPcs \ {"await84"}

\* Run r went through lines 144-147 without any variant having been called.
LoggedWithoutVariant(r) ==
    /\ pc[r] = "ret174"
    /\ Len(CallsOf(r)) = 1
    /\ TruthyStr(frame[r].classifiedFormat)

\* C16: with submissions that overlap, the log holds exactly what each run
\* appended, once, in the run's own order: for every call the run made, its
\* placeholder and, once the call has settled, its result or error entry,
\* in call order (plus the one entry of lines 144-147 when no variant
\* matched); entries of different runs may interleave.
C16_NoEntryLost ==
    \A r \in Runs :
        LET E == EntriesOf(r)
            C == CallsOf(r)
            n == 2 * Len(C) - (IF AwaitsLoggedCall(r) THEN 1 ELSE 0)
                     + (IF LoggedWithoutVariant(r) THEN 1 ELSE 0) IN
        /\ Len(E) = n
        /\ \A k \in 1..Len(C) :
               /\ E[2 * k - 1].agent = StageAgent[C[k].fn]
               /\ IsPlaceholder(E[2 * k - 1])
               /\ (2 * k <= n) =>
                      /\ ~IsPlaceholder(E[2 * k])
                      /\ C[k].fn = "classifyDocument" => E[2 * k].agent = "Classifier"
                      /\ C[k].fn \in VariantFns => E[2 * k].agent \in ExtractionAgents
                      /\ C[k].fn = "routeAction" => E[2 * k].agent = "Action Router"
        /\ LoggedWithoutVariant(r) => E[n].output = Undefined

\* Two runs overlapped and both finished with all six entries in the log.
C16_Witness ==
    /\ pc[1] = "ret174" /\ pc[2] = "ret174"
    /\ Len(EntriesOf(1)) = 6 /\ Len(EntriesOf(2)) = 6
    /\ memoryLog[1].run = 1 /\ memoryLog[2].run = 2 /\ memoryLog[3].run = 1

\* Every result the page shows was logged by run r.
ShownBy(r) ==
    LET E == EntriesOf(r) IN
    /\ classifierOutput # Null =>
           \E i \in 1..Len(E) : E[i].agent = "Classifier" /\ E[i].output = classifierOutput
    /\ specializedAgentOutput # Null =>
           \E i \in 1..Len(E) :
               E[i].agent \in ExtractionAgents /\ E[i].output = specializedAgentOutput
    /\ actionRouterOutput # Null =>
           \E i \in 1..Len(E) :
               E[i].agent = "Action Router" /\ E[i].output = actionRouterOutput

\* C17: with submissions that overlap, whenever the page shows a Routing
\* Decision it also shows a Classification Result and an Extraction Result,
\* and everything it shows was produced by one and the same run.
C17_DisplayedResultsConsistent ==
    /\ actionRouterOutput # Null =>
           (classifierOutput # Null /\ specializedAgentOutput # Null)
    /\ \E r \in Runs : ShownBy(r)

====
